---- MODULE Spec2Model ----
(***************************************************************************)
(* The three scripts of the repository (helpsheet.py, main.py,             *)
(* testtable.py) as state machines over a SQLite database reached through  *)
(* Python's sqlite3 module.                                                *)
(*                                                                         *)
(* The position of a script is the source line of the next store call.    *)
(* REAL values (gpa) are kept as scaled integers, in tenths: 3.8 is 38.    *)
(* The connection is Python's default one: a transaction is opened         *)
(* implicitly before INSERT/UPDATE/DELETE, DDL outside a transaction is    *)
(* committed at once, a failed statement leaves no effect of its own but   *)
(* leaves the transaction open.                                            *)
(***************************************************************************)
EXTENDS Integers, Sequences, FiniteSets, TLC

VARIABLES
    script,     \* which of the three scripts runs
    pc,         \* source line of the next store call of the script
    status,     \* "running", "finished", or "uncaught" (traceback, run ended)
    conn,       \* the script's connection: "none", "open", "closed"
    inTx,       \* connection.in_transaction
    view,       \* the database as the connection sees it (pending changes in)
    disk,       \* the committed database (the file)
    conn2,      \* the connection of the 'with' block: "none", "open", "closed"
    errs,       \* the store errors raised, in order: [line, cls, caught]
    calls,      \* commit / rollback / close calls issued, in order
    pre,        \* the committed database when the transfer section is entered
    before,     \* rows printed by the 'Before' query (helpsheet.py:342)
    after       \* rows printed by the 'After' query (helpsheet.py:368)

vars == <<script, pc, status, conn, inTx, view, disk, conn2, errs, calls,
          pre, before, after>>

----------------------------------------------------------------------------
(* Bounds of the drawn pre-states of the transfer section. *)

MaxRows == 3

(* 0.2, the amount of the two UPDATEs, in tenths. *)
TransferAmount == 2

SourceKey == "Alice Johnson"
DestKey == "Bob Smith"

Names == {"Alice Johnson", "Bob Smith", "Carol White"}
Gpas == {1, 35, 38}

NoErr == [line |-> 0, cls |-> "none", caught |-> FALSE]
NotRead == <<[name |-> "not read", gpa |-> 0]>>

----------------------------------------------------------------------------
(* The database: which tables exist, the rows of students and courses, and *)
(* the AUTOINCREMENT counter of students (sqlite_sequence).                *)

EmptyDb == [tables |-> {}, students |-> {}, seq |-> 0, courses |-> {}]

MaxOf(S) == IF S = {} THEN 0 ELSE CHOOSE m \in S : \A x \in S : x <= m

RECURSIVE SeqById(_)
SeqById(rows) ==
    IF rows = {} THEN <<>>
    ELSE LET r == CHOOSE x \in rows : \A y \in rows : x.id <= y.id
         IN <<r>> \o SeqById(rows \ {r})

(* SELECT name, gpa FROM students WHERE name IN (?, ?): rows in rowid order *)
SelectNameGpaIn(db, k1, k2) ==
    LET hit == {r \in db.students : r.name \in {k1, k2}}
        s == SeqById(hit)
    IN [i \in 1..Len(s) |-> [name |-> s[i].name, gpa |-> s[i].gpa]]

(* SELECT * FROM students; fetchall(): every row, in rowid order *)
SelectAllStudents(db) == SeqById(db.students)

(* UPDATE students SET gpa = gpa + delta WHERE name = key                *)
(* (UpdateGpaByNameDropsWhere: the same UPDATE without its WHERE clause)  *)
UpdateGpaByNameDropsWhere(db, key, delta) ==
    [db EXCEPT !.students = {[r EXCEPT !.gpa = @ + delta] : r \in @}]

(* UpdateGpaByNameInvertsWhere: the same UPDATE with WHERE name != key    *)
UpdateGpaByNameInvertsWhere(db, key, delta) ==
    [db EXCEPT !.students =
        {IF r.name # key THEN [r EXCEPT !.gpa = @ + delta] ELSE r : r \in @}]

UpdateGpaByName(db, key, delta) ==
    [db EXCEPT !.students =
        {IF r.name = key THEN [r EXCEPT !.gpa = @ + delta] ELSE r : r \in @}]

(* UPDATE students SET gpa = value WHERE name = key *)
SetGpaByName(db, key, value) ==
    [db EXCEPT !.students =
        {IF r.name = key THEN [r EXCEPT !.gpa = value] ELSE r : r \in @}]

(* UPDATE students SET gpa = gpa + delta WHERE age > bound *)
UpdateGpaByAge(db, bound, delta) ==
    [db EXCEPT !.students =
        {IF r.age > bound THEN [r EXCEPT !.gpa = @ + delta] ELSE r : r \in @}]

DeleteByName(db, key) ==
    [db EXCEPT !.students = {r \in @ : r.name # key}]

DeleteGpaBelow(db, bound) ==
    [db EXCEPT !.students = {r \in @ : ~(r.gpa < bound)}]

(* INSERT INTO students (name, email, age, gpa): id from AUTOINCREMENT,   *)
(* enrolled from its DEFAULT 1; email is UNIQUE.                          *)
EmailTaken(db, email) == \E r \in db.students : r.email = email

(* InsertStudentSwapsColumns: the values bound to age and gpa exchanged   *)
InsertStudentSwapsColumns(db, v) ==
    LET newId == MaxOf({db.seq} \cup {r.id : r \in db.students}) + 1
    IN [db EXCEPT !.students = @ \cup
                      {[id |-> newId, name |-> v.name, email |-> v.email,
                        age |-> v.gpa, gpa |-> v.age, enrolled |-> 1]},
                  !.seq = newId]

InsertStudent(db, v) ==
    LET newId == MaxOf({db.seq} \cup {r.id : r \in db.students}) + 1
    IN [db EXCEPT !.students = @ \cup
                      {[id |-> newId, name |-> v.name, email |-> v.email,
                        age |-> v.age, gpa |-> v.gpa, enrolled |-> 1]},
                  !.seq = newId]

InsertCourse(db, v) ==
    LET newId == MaxOf({r.course_id : r \in db.courses}) + 1
    IN [db EXCEPT !.courses = @ \cup
                      {[course_id |-> newId, student_id |-> v.student_id,
                        course_name |-> v.course_name, grade |-> v.grade]}]

----------------------------------------------------------------------------
(* Statements.  A statement is what one store call asks for.               *)

Select(ts) == [op |-> "execute", sql |-> "select", tables |-> ts]
Drop(t) == [op |-> "execute", sql |-> "drop", table |-> t]
Create(t, ine, good) == [op |-> "execute", sql |-> "create", table |-> t,
                         ifNotExists |-> ine, syntaxOk |-> good]
Insert(rs) == [op |-> "execute", sql |-> "insert", rows |-> rs]
InsertCourses(rs) == [op |-> "execute", sql |-> "insert_courses", rows |-> rs]
AddGpa(k, d) == [op |-> "execute", sql |-> "add_gpa", key |-> k, delta |-> d]
SetGpa(k, g) == [op |-> "execute", sql |-> "set_gpa", key |-> k, value |-> g]
AddGpaOlder(a, d) == [op |-> "execute", sql |-> "add_gpa_age", bound |-> a,
                      delta |-> d]
DeleteName(k) == [op |-> "execute", sql |-> "delete_name", key |-> k]
DeleteBelow(g) == [op |-> "execute", sql |-> "delete_gpa", bound |-> g]
Call(o) == [op |-> o, sql |-> "none"]

Student(n, e, a, g) == [name |-> n, email |-> e, age |-> a, gpa |-> g]
Course(s, n, g) == [student_id |-> s, course_name |-> n, grade |-> g]

students_list ==
    << Student("Bob Smith", "bob@email.com", 22, 35),
       Student("Carol White", "carol@email.com", 21, 39),
       Student("David Brown", "david@email.com", 23, 32),
       Student("Eve Davis", "eve@email.com", 20, 37) >>

courses_data ==
    << Course(1, "Math 101", "A"), Course(1, "English 101", "B"),
       Course(2, "Math 101", "A"), Course(3, "History 101", "B") >>

(* helpsheet.py, by the line of each store call *)
HelpsheetStmt(l) ==
    CASE l = 24 -> Call("connect")
      [] l = 47 -> Drop("students")
      [] l = 50 -> Create("students", FALSE, TRUE)
      [] l = 72 -> Call("commit")
      [] l = 86 -> Insert(<<Student("Alice Johnson", "alice@email.com", 20, 38)>>)
      [] l = 100 -> Insert(students_list)
      [] l = 107 -> Insert(<<Student("Frank Miller", "frank@email.com", 22, 36)>>)
      [] l = 117 -> Call("commit")
      [] l \in {131, 139, 147, 153, 160, 168, 176, 184, 192, 208}
            -> Select({"students"})
      [] l = 230 -> SetGpa("Bob Smith", 39)
      [] l = 241 -> AddGpaOlder(22, 1)
      [] l = 250 -> Select({"students"})
      [] l = 255 -> Call("commit")
      [] l = 268 -> Insert(<<Student("Test Student", "test@email.com", 19, 25)>>)
      [] l = 272 -> Call("commit")
      [] l = 276 -> DeleteName("Test Student")
      [] l = 281 -> DeleteBelow(30)
      [] l = 284 -> Call("commit")
      [] l = 305 -> Select({"students"})
      [] l = 342 -> Select({"students"})
      [] l = 350 -> AddGpa(SourceKey, 0 - TransferAmount)
      [] l = 354 -> AddGpa(DestKey, TransferAmount)
      [] l = 358 -> Call("commit")
      [] l = 363 -> Call("rollback")
      [] l = 368 -> Select({"students"})
      [] l = 383 -> Drop("courses")
      [] l = 384 -> Create("courses", FALSE, TRUE)
      [] l = 405 -> InsertCourses(courses_data)
      [] l = 409 -> Call("commit")
      [] l \in {414, 426} -> Select({"students", "courses"})
      [] l \in {447, 456, 470} -> Select({})
      [] l = 487 -> Insert(<<Student("Another Alice", "alice@email.com", 21, 35)>>)
      [] l = 491 -> Call("commit")
      [] l = 499 -> Select({"nonexistent_table"})
      [] l = 507 -> Select({"students"})
      [] l = 525 -> Call("with_connect")
      [] l = 527 -> [op |-> "with_execute", sql |-> "select",
                     tables |-> {"students"}]
      [] l = 530 -> Call("with_exit")
      [] l = 589 -> Call("close")

HelpsheetLines ==
    << 24, 47, 50, 72, 86, 100, 107, 117, 131, 139, 147, 153, 160, 168, 176,
       184, 192, 208, 230, 241, 250, 255, 268, 272, 276, 281, 284, 305, 342,
       350, 354, 358, 363, 368, 383, 384, 405, 409, 414, 426, 447, 456, 470,
       487, 491, 499, 507, 525, 527, 530, 589 >>

(* main.py: the professors definition puts a column after a table         *)
(* constraint (CHECK ..., PhoneNumber ...), which SQLite's grammar rejects *)
MainStmt(l) ==
    CASE l = 8 -> Call("connect")
      [] l = 12 -> Create("colleges", TRUE, TRUE)
      [] l = 23 -> Create("departments", TRUE, TRUE)
      [] l = 53 -> Create("professors", TRUE, FALSE)
      [] l = 163 -> Call("commit")
      [] l = 164 -> Call("close")

MainLines == << 8, 12, 23, 53, 163, 164 >>

TesttableStmt(l) ==
    CASE l = 3 -> Call("connect")
      [] l = 6 -> Create("colleges", TRUE, TRUE)
      [] l = 14 -> Call("commit")
      [] l = 15 -> Call("close")

TesttableLines == << 3, 6, 14, 15 >>

Scripts == {"helpsheet", "main", "testtable"}

Lines(s) == CASE s = "helpsheet" -> HelpsheetLines
              [] s = "main" -> MainLines
              [] s = "testtable" -> TesttableLines

Stmt(s, l) == CASE s = "helpsheet" -> HelpsheetStmt(l)
                [] s = "main" -> MainStmt(l)
                [] s = "testtable" -> TesttableStmt(l)

(* SuccFallsIntoExcept: the rollback of line 363 written as a finally     *)
(* suite, so that it also follows a commit that succeeded                 *)
SuccFallsIntoExcept(s, l) ==
    LET ls == Lines(s)
        i == CHOOSE j \in 1..Len(ls) : ls[j] = l
    IN IF i = Len(ls) THEN 0 ELSE ls[i + 1]

(* The store call that follows line l when l ends without an error; 0 is  *)
(* the end of the script.  The except suite of the transfer (363) is      *)
(* skipped when the try suite ends normally.                              *)
Succ(s, l) ==
    LET ls == Lines(s)
        i == CHOOSE j \in 1..Len(ls) : ls[j] = l
    IN IF s = "helpsheet" /\ l = 358 THEN 368
       ELSE IF i = Len(ls) THEN 0 ELSE ls[i + 1]

(* HandlerMissesCommit: the try suite of the transfer ending before the   *)
(* commit of line 358                                                     *)
HandlerMissesCommit(s, l, cls) ==
    IF s # "helpsheet" THEN 0
    ELSE IF l \in {350, 354} THEN 363
    ELSE IF l \in {487, 491} /\ cls = "IntegrityError" THEN 499
    ELSE IF l = 499 /\ cls = "OperationalError" THEN 507
    ELSE IF l = 507 THEN 525
    ELSE 0

(* HandlerCatchesAnyError: line 492 written as 'except sqlite3.Error'     *)
HandlerCatchesAnyError(s, l, cls) ==
    IF s # "helpsheet" THEN 0
    ELSE IF l \in {350, 354, 358} THEN 363
    ELSE IF l \in {487, 491} THEN 499
    ELSE IF l = 499 /\ cls = "OperationalError" THEN 507
    ELSE IF l = 507 THEN 525
    ELSE 0

(* try/except: where control goes when the call at line l raises an error *)
(* of class cls; 0 when no except clause matches (the error is uncaught). *)
(* Both classes derive from sqlite3.Error.                                *)
Handler(s, l, cls) ==
    IF s # "helpsheet" THEN 0
    ELSE IF l \in {350, 354, 358} THEN 363
    ELSE IF l \in {487, 491} /\ cls = "IntegrityError" THEN 499
    ELSE IF l = 499 /\ cls = "OperationalError" THEN 507
    ELSE IF l = 507 THEN 525
    ELSE 0

----------------------------------------------------------------------------
(* What SQLite does with one statement on database db:                     *)
(* [ok, db, cls], db being the database the connection sees afterwards.    *)

Done(db) == [ok |-> TRUE, db |-> db, cls |-> "none"]
Fails(db, c) == [ok |-> FALSE, db |-> db, cls |-> c]

(* executemany runs the INSERT once per row and stops at the first row     *)
(* that fails; the rows before it stay in the open transaction.            *)
RECURSIVE InsertStudents(_, _)
InsertStudents(db, rows) ==
    IF rows = <<>> THEN Done(db)
    ELSE IF EmailTaken(db, Head(rows).email) THEN Fails(db, "IntegrityError")
    ELSE InsertStudents(InsertStudent(db, Head(rows)), Tail(rows))

RECURSIVE InsertCourseRows(_, _)
InsertCourseRows(db, rows) ==
    IF rows = <<>> THEN db
    ELSE InsertCourseRows(InsertCourse(db, Head(rows)), Tail(rows))

DropTable(db, t) ==
    [db EXCEPT !.tables = @ \ {t},
               !.students = IF t = "students" THEN {} ELSE @,
               !.seq = IF t = "students" THEN 0 ELSE @,
               !.courses = IF t = "courses" THEN {} ELSE @]

NeedsTable(st) ==
    CASE st.sql \in {"insert", "add_gpa", "set_gpa", "add_gpa_age",
                     "delete_name", "delete_gpa"} -> {"students"}
      [] st.sql = "insert_courses" -> {"courses"}
      [] st.sql = "select" -> st.tables
      [] OTHER -> {}

Exec(st, db) ==
    IF ~(NeedsTable(st) \subseteq db.tables) THEN Fails(db, "OperationalError")
    ELSE CASE st.sql = "select" -> Done(db)
           [] st.sql = "drop" -> Done(DropTable(db, st.table))
           [] st.sql = "create" ->
                IF ~st.syntaxOk THEN Fails(db, "OperationalError")
                ELSE IF st.table \in db.tables
                     THEN IF st.ifNotExists THEN Done(db)
                          ELSE Fails(db, "OperationalError")
                     ELSE Done([db EXCEPT !.tables = @ \cup {st.table}])
           [] st.sql = "insert" -> InsertStudents(db, st.rows)
           [] st.sql = "insert_courses" -> Done(InsertCourseRows(db, st.rows))
           [] st.sql = "add_gpa" -> Done(UpdateGpaByName(db, st.key, st.delta))
           [] st.sql = "set_gpa" -> Done(SetGpaByName(db, st.key, st.value))
           [] st.sql = "add_gpa_age" ->
                Done(UpdateGpaByAge(db, st.bound, st.delta))
           [] st.sql = "delete_name" -> Done(DeleteByName(db, st.key))
           [] st.sql = "delete_gpa" -> Done(DeleteGpaBelow(db, st.bound))

(* sqlite3 opens a transaction before INSERT, UPDATE and DELETE only *)
IsDML(st) == st.sql \in {"insert", "insert_courses", "add_gpa", "set_gpa",
                         "add_gpa_age", "delete_name", "delete_gpa"}

----------------------------------------------------------------------------
(* Steps of a script.                                                      *)

Cur == Stmt(script, pc)

At(o) == status = "running" /\ pc # 0 /\ Cur.op = o

(* control after the call at pc ended normally *)
Advance ==
    LET n == Succ(script, pc)
    IN /\ pc' = n
       /\ status' = IF n = 0 THEN "finished" ELSE "running"

(* control after the call at pc raised cls: the matching except suite, or *)
(* the top level, where the traceback ends the run                        *)
Raise(cls) ==
    LET h == Handler(script, pc, cls)
    IN /\ errs' = Append(errs, [line |-> pc, cls |-> cls, caught |-> h # 0])
       /\ pc' = IF h # 0 THEN h ELSE pc
       /\ status' = IF h # 0 THEN "running" ELSE "uncaught"

Issued(o, good) == Append(calls, [line |-> pc, op |-> o, ok |-> good])

(* sqlite3.connect(...) *)
Connect ==
    /\ At("connect")
    /\ conn' = "open"
    /\ view' = disk
    /\ inTx' = FALSE
    /\ Advance
    /\ UNCHANGED <<script, disk, conn2, errs, calls, pre, before, after>>

(* cursor.execute / cursor.executemany: the statement's own outcome *)
Execute ==
    /\ At("execute")
    /\ LET r == Exec(Cur, view)
           tx == inTx \/ (IsDML(Cur) /\ (r.ok \/ r.cls = "IntegrityError"))
       IN /\ view' = r.db
          /\ inTx' = tx
          /\ disk' = IF r.ok /\ ~tx THEN r.db ELSE disk
          /\ IF r.ok
             THEN /\ Advance
                  /\ errs' = errs
                  /\ pre' = IF script = "helpsheet" /\ pc = 342 THEN disk ELSE pre
                  /\ before' = IF script = "helpsheet" /\ pc = 342
                               THEN SelectNameGpaIn(view, SourceKey, DestKey)
                               ELSE before
                  /\ after' = IF script = "helpsheet" /\ pc = 368
                              THEN SelectNameGpaIn(view, SourceKey, DestKey)
                              ELSE after
             ELSE /\ Raise(r.cls)
                  /\ UNCHANGED <<pre, before, after>>
    /\ UNCHANGED <<script, conn, conn2, calls>>

(* connection.commit() *)
Commit ==
    /\ At("commit")
    /\ disk' = view
    /\ inTx' = FALSE
    /\ calls' = Issued("commit", TRUE)
    /\ Advance
    /\ UNCHANGED <<script, conn, view, conn2, errs, pre, before, after>>

(* RollbackAsCommit: the except suite calling commit() for rollback()     *)
RollbackAsCommit ==
    /\ At("rollback")
    /\ disk' = view
    /\ inTx' = FALSE
    /\ calls' = Issued("rollback", TRUE)
    /\ Advance
    /\ UNCHANGED <<script, conn, view, conn2, errs, pre, before, after>>

(* RollbackKeepsView: a rollback that ends the transaction and leaves the *)
(* pending changes visible to the connection                              *)
RollbackKeepsView ==
    /\ At("rollback")
    /\ inTx' = FALSE
    /\ calls' = Issued("rollback", TRUE)
    /\ Advance
    /\ UNCHANGED <<script, conn, view, disk, conn2, errs, pre, before, after>>

(* connection.rollback() *)
Rollback ==
    /\ At("rollback")
    /\ view' = disk
    /\ inTx' = FALSE
    /\ calls' = Issued("rollback", TRUE)
    /\ Advance
    /\ UNCHANGED <<script, conn, disk, conn2, errs, pre, before, after>>

(* connection.close(): a pending transaction is discarded *)
Close ==
    /\ At("close")
    /\ conn' = "closed"
    /\ view' = disk
    /\ inTx' = FALSE
    /\ calls' = Issued("close", TRUE)
    /\ Advance
    /\ UNCHANGED <<script, disk, conn2, errs, pre, before, after>>

(* A store error that is not the statement's own doing (database locked   *)
(* by another process, disk I/O error): execute or commit raises          *)
(* sqlite3.OperationalError and changes nothing.                          *)
StoreError ==
    /\ At("execute") \/ At("commit")
    /\ inTx' = (inTx \/ (Cur.op = "execute" /\ IsDML(Cur)))
    /\ calls' = IF Cur.op = "commit" THEN Issued("commit", FALSE) ELSE calls
    /\ Raise("OperationalError")
    /\ UNCHANGED <<script, conn, view, disk, conn2, pre, before, after>>

(* with sqlite3.connect('my_database.db') as conn: *)
WithConnect ==
    /\ At("with_connect")
    /\ conn2' = "open"
    /\ Advance
    /\ UNCHANGED <<script, conn, inTx, view, disk, errs, calls, pre, before,
                   after>>

(* cur.execute of the COUNT query (line 527) on the second connection,    *)
(* which reads the committed database                                     *)
WithExecute ==
    /\ At("with_execute")
    /\ Exec(Cur, disk).ok
    /\ Advance
    /\ UNCHANGED <<script, conn, inTx, view, disk, conn2, errs, calls, pre,
                   before, after>>

(* the block ends normally: Connection.__exit__ commits and leaves the    *)
(* connection open                                                        *)
WithExit ==
    /\ At("with_exit")
    /\ calls' = Issued("commit2", TRUE)
    /\ Advance
    /\ UNCHANGED <<script, conn, inTx, view, disk, conn2, errs, pre, before,
                   after>>

(* the block ends with an error: Connection.__exit__ rolls back and the   *)
(* error goes on to the top level                                         *)
WithError ==
    /\ At("with_execute")
    /\ calls' = Issued("rollback2", TRUE)
    /\ Raise("OperationalError")
    /\ UNCHANGED <<script, conn, inTx, view, disk, conn2, pre, before, after>>

----------------------------------------------------------------------------
(* The scripts, each run from its first line on a new database file.      *)

ScriptInit ==
    /\ script \in Scripts
    /\ pc = Lines(script)[1]
    /\ status = "running"
    /\ conn = "none"
    /\ inTx = FALSE
    /\ view = EmptyDb
    /\ disk = EmptyDb
    /\ conn2 = "none"
    /\ errs = <<>>
    /\ calls = <<>>
    /\ pre = EmptyDb
    /\ before = NotRead
    /\ after = NotRead

ScriptNext ==
    \/ Connect
    \/ Execute
    \/ Commit
    \/ Rollback
    \/ Close
    \/ StoreError
    \/ WithConnect
    \/ WithExecute
    \/ WithExit
    \/ WithError

ScriptSpec == ScriptInit /\ [][ScriptNext]_vars

----------------------------------------------------------------------------
(* The transfer section of helpsheet.py (lines 341-371) on every students *)
(* table of at most MaxRows rows: the 'Before' query, the try/except      *)
(* block, the 'After' query.                                              *)

DrawnEmails == << "alice@email.com", "bob@email.com", "carol@email.com",
                  "david@email.com", "eve@email.com", "frank@email.com",
                  "test@email.com" >>

DrawnRow(i, n, g) == [id |-> i, name |-> n, email |-> DrawnEmails[i],
                      age |-> 20, gpa |-> g, enrolled |-> 1]

DrawnTables ==
    UNION { { {DrawnRow(i, nf[i], gf[i]) : i \in S} :
                nf \in [S -> Names], gf \in [S -> Gpas] } :
            S \in SUBSET (1..MaxRows) }

TransferLines == {342, 350, 354, 358, 363, 368}

Init ==
    /\ script = "helpsheet"
    /\ pc = 342
    /\ status = "running"
    /\ conn = "open"
    /\ inTx = FALSE
    /\ \E t \in DrawnTables :
          disk = [tables |-> {"students"}, students |-> t,
                  seq |-> MaxOf({r.id : r \in t}), courses |-> {}]
    /\ view = disk
    /\ conn2 = "none"
    /\ errs = <<>>
    /\ calls = <<>>
    /\ pre = disk
    /\ before = NotRead
    /\ after = NotRead

InTransfer == script = "helpsheet" /\ pc \in TransferLines

TransferExecute == InTransfer /\ Execute
TransferCommit == InTransfer /\ Commit
TransferRollback == InTransfer /\ Rollback
TransferStoreError == InTransfer /\ StoreError

Next ==
    \/ TransferExecute
    \/ TransferCommit
    \/ TransferRollback
    \/ TransferStoreError

Spec == Init /\ [][Next]_vars

----------------------------------------------------------------------------
(* Vocabulary of the claims about the transfer section.                    *)

BlockLines == {350, 354, 358}

LastErr == IF errs = <<>> THEN NoErr ELSE errs[Len(errs)]

(* the error raised in the try suite of the transfer, if any *)
BlockErr ==
    IF \E i \in 1..Len(errs) : errs[i].line \in BlockLines
    THEN errs[CHOOSE i \in 1..Len(errs) : errs[i].line \in BlockLines]
    ELSE NoErr

(* the try/except block has been left, by either suite or by a traceback *)
BlockEnded ==
    \/ pc \in {368, 383}
    \/ status = "uncaught" /\ pc \in {350, 354, 358, 363}

RowsNamed(db, k) == {r \in db.students : r.name = k}

(* what a transfer is to do to one row, stated on its own *)
Delta(n) == (IF n = SourceKey THEN 0 - TransferAmount ELSE 0)
            + (IF n = DestKey THEN TransferAmount ELSE 0)

Transferred(rows) == {[r EXCEPT !.gpa = @ + Delta(r.name)] : r \in rows}

GpaSum(db, k1, k2) ==
    LET a == CHOOSE r \in RowsNamed(db, k1) : TRUE
        b == CHOOSE r \in RowsNamed(db, k2) : TRUE
    IN a.gpa + b.gpa

GpaOf(db, k) == (CHOOSE r \in RowsNamed(db, k) : TRUE).gpa

IssuedOps == [i \in 1..Len(calls) |-> calls[i].op]
Committed == \E i \in 1..Len(calls) : calls[i].op = "commit" /\ calls[i].ok
RolledBack == \E i \in 1..Len(calls) : calls[i].op = "rollback"

SourceChanged == \E r \in RowsNamed(pre, SourceKey) : r \notin disk.students
DestChanged == \E r \in RowsNamed(pre, DestKey) : r \notin disk.students

----------------------------------------------------------------------------
(* C1: whatever the students table held and however the transfer block    *)
(* ends, the committed table is the one before the block or that table    *)
(* with both UPDATEs applied, never one with a single UPDATE applied, and *)
(* once the block has ended nothing is left pending on the connection.    *)
C1_AllOrNothing ==
    /\ disk.students = pre.students \/ disk.students = Transferred(pre.students)
    /\ (RowsNamed(pre, SourceKey) # {} /\ RowsNamed(pre, DestKey) # {})
          => (SourceChanged <=> DestChanged)
    /\ BlockEnded => (view = disk /\ ~inTx)
    /\ [disk EXCEPT !.students = {}] = [pre EXCEPT !.students = {}]

(* the second UPDATE failed after the first had changed a row, and the    *)
(* block has ended                                                         *)
C1_Witness ==
    /\ pc = 368
    /\ BlockErr.line = 354
    /\ RowsNamed(pre, SourceKey) # {}
    /\ RowsNamed(pre, DestKey) # {}
    /\ disk = pre

(* C2: when each key names exactly one row and the source has at least    *)
(* the amount, a transfer that commits leaves the source at its old gpa   *)
(* minus the amount, the destination at its old gpa plus the amount, and  *)
(* their sum unchanged.                                                    *)
C2_Pre ==
    /\ Cardinality(RowsNamed(pre, SourceKey)) = 1
    /\ Cardinality(RowsNamed(pre, DestKey)) = 1
    /\ GpaOf(pre, SourceKey) >= TransferAmount

C3_MissingDestinationFails ==
    (/\ BlockEnded
     /\ RowsNamed(pre, DestKey) = {}
     /\ Cardinality(RowsNamed(pre, SourceKey)) = 1) =>
        /\ RolledBack
        /\ ~Committed
        /\ RowsNamed(disk, SourceKey) = RowsNamed(pre, SourceKey)
        /\ RowsNamed(disk, DestKey) = {}

(* C4: if no row has the source key, the decrement raises a store error,  *)
(* every gpa keeps its old value and the failure is reported.  Stated for *)
(* the tables in which the destination key names one row.                 *)
C4_MissingSourceFails ==
    (/\ BlockEnded
     /\ RowsNamed(pre, SourceKey) = {}
     /\ Cardinality(RowsNamed(pre, DestKey)) = 1) =>
        /\ BlockErr.line = 350
        /\ RolledBack
        /\ disk.students = pre.students

(* C5 as claimed: an error raised in the try suite is re-raised once the  *)
(* rollback has been issued, so the run ends there and the lines after    *)
(* the block are not executed.                                            *)
C5_ErrorIsReraised ==
    (BlockErr.line \in BlockLines /\ RolledBack) =>
        (~BlockErr.caught /\ status = "uncaught" /\ after = NotRead)

(* C5 as the code has it: an error raised by either UPDATE or by the      *)
(* commit is caught, rollback is the next call and the last one of the    *)
(* block, and the script goes on with the 'After' query: the error is     *)
(* printed, not re-raised.                                                *)
C5_ErrorIsCaughtAndPrinted ==
    /\ BlockErr.line \in BlockLines =>
          /\ BlockErr.caught
          /\ status = "running" \/ (pc = 368 /\ LastErr.line = 368)
          /\ pc \in {363, 368, 383}
          /\ pc = 363 => ~RolledBack
          /\ pc \in {368, 383} =>
                (calls # <<>> /\ calls[Len(calls)].op = "rollback"
                              /\ calls[Len(calls)].line = 363)
          /\ pc = 383 => after # NotRead
    /\ (pc \in BlockLines \cup {363}) => status = "running"

(* an UPDATE failed, the rollback was issued and the 'After' query ran *)
C5_Witness ==
    /\ BlockErr.line = 354
    /\ RolledBack
    /\ pc = 383
    /\ after # NotRead

(* C6 as claimed: the block ends with exactly one finalizing call, commit *)
(* or rollback, never both and never neither.                             *)
C6_ExactlyOneFinalizingCall ==
    BlockEnded => (IssuedOps = <<"commit">> \/ IssuedOps = <<"rollback">>)

(* C6 as the code has it: commit is issued only when both UPDATEs have    *)
(* returned without error, rollback is issued exactly when a store error  *)
(* was raised in the block, exactly one finalizing call succeeds, and     *)
(* both are issued exactly when commit itself raised the error.           *)
C6_FinalizingCalls ==
    BlockEnded =>
        /\ IssuedOps \in {<<"commit">>, <<"rollback">>, <<"commit", "rollback">>}
        /\ (IssuedOps[1] = "commit") <=> (BlockErr.line \notin {350, 354})
        /\ RolledBack <=> (BlockErr.line \in BlockLines)
        /\ Cardinality({i \in 1..Len(calls) : calls[i].ok}) = 1
        /\ Committed <=> ~RolledBack
        /\ (IssuedOps = <<"commit", "rollback">>) <=> (BlockErr.line = 358)

(* the commit of line 358 raised and the rollback followed it *)
C6_Witness ==
    /\ BlockEnded
    /\ calls = << [line |-> 358, op |-> "commit", ok |-> FALSE],
                  [line |-> 363, op |-> "rollback", ok |-> TRUE] >>

(* C7: when the second UPDATE raises after the first has been applied,    *)
(* the 'After' query returns the rows the 'Before' query returned.        *)
C7_AfterEqualsBefore ==
    (pc = 383 /\ BlockErr.line = 354) =>
        /\ after = before
        /\ after = SelectNameGpaIn(pre, SourceKey, DestKey)

(* the first UPDATE changed a row, the second raised, both queries ran *)
C7_Witness ==
    /\ pc = 383
    /\ BlockErr.line = 354
    /\ RowsNamed(pre, SourceKey) # {}
    /\ Len(after) = 2
    /\ after = before

----------------------------------------------------------------------------
(* Claims about the scripts as wholes, checked under ScriptSpec.           *)

Ended == status \in {"finished", "uncaught"}

RaisedAt(l, c) ==
    \E i \in 1..Len(errs) : errs[i].line = l /\ errs[i].cls = c

(* the call sites inside a try suite: the transfer block and the three    *)
(* examples of section 11                                                 *)
TryLines == BlockLines \cup {487, 491, 499, 507}

(* C8: when a script has ended, normally or by an uncaught error, the     *)
(* connection it opened on its first lines has been closed.               *)
C8_ClosedOnEveryExit ==
    (Ended /\ conn # "none") => conn = "closed"

(* C9: once the duplicate-email INSERT of line 487 has raised its         *)
(* IntegrityError, the transaction it opened has been rolled back: no     *)
(* transaction is open, a rollback is the last call issued, and the       *)
(* INSERT is not run again.                                               *)
C9_DuplicateInsertRolledBack ==
    (script = "helpsheet" /\ RaisedAt(487, "IntegrityError")) =>
        /\ ~inTx
        /\ calls # <<>> /\ calls[Len(calls)].op = "rollback"
        /\ pc # 487

(* C10 as claimed: only the transfer block catches a store error; an      *)
(* error raised by any other call is uncaught.                            *)
C10_OnlyTransferCatches ==
    \A i \in 1..Len(errs) : errs[i].line \notin BlockLines => ~errs[i].caught

(* C10 as the code has it: an error raised outside every try suite is     *)
(* uncaught; an example of section 11 catches only the class its except   *)
(* clause names; an uncaught error is the last thing that happens: the    *)
(* run has ended at the failing line and no further step is possible.     *)
C10_UncaughtOutsideTry ==
    /\ \A i \in 1..Len(errs) :
          /\ (script # "helpsheet" \/ errs[i].line \notin TryLines)
                => ~errs[i].caught
          /\ (errs[i].line \in {487, 491} /\ errs[i].caught)
                => errs[i].cls = "IntegrityError"
          /\ (errs[i].line = 499 /\ errs[i].caught)
                => errs[i].cls = "OperationalError"
          /\ ~errs[i].caught =>
                (i = Len(errs) /\ status = "uncaught" /\ pc = errs[i].line)
    /\ status = "uncaught" =>
          (LastErr # NoErr /\ ~LastErr.caught /\ ~ENABLED ScriptNext)

(* main.py has ended at its CREATE TABLE professors, lines 163 and 164    *)
(* not run                                                                *)
C10_Witness ==
    /\ script = "main"
    /\ status = "uncaught"
    /\ pc = 53
    /\ LastErr = [line |-> 53, cls |-> "OperationalError", caught |-> FALSE]
    /\ calls = <<>>

(* C11: the defective table definitions are never submitted to the store, *)
(* so main.py is not ended by an error of one of its own statements: when *)
(* it ends by an error, the statement at fault is a well-formed one that  *)
(* the store would have run, and it reaches its final commit and close    *)
(* otherwise.                                                             *)
C11_DefectiveDefinitionsNeverRun ==
    /\ (script = "main" /\ status = "uncaught" /\ Cur.op = "execute") =>
          (Cur.syntaxOk /\ Exec(Cur, view).ok)
    /\ (script = "main" /\ status = "finished") =>
          IssuedOps = <<"commit", "close">>

(* the 'with' block of lines 525-531 has been entered and left *)
WithLeft ==
    /\ script = "helpsheet"
    /\ conn2 # "none"
    /\ pc \in {589, 0} \/ (pc = 527 /\ status = "uncaught")

CallOps == {calls[i].op : i \in 1..Len(calls)}

(* C12: once the 'with' block has been left, its connection has been      *)
(* committed if the block ended without error and rolled back if it       *)
(* ended with one, and in both cases the connection is closed.            *)
C12_WithCommitsAndCloses ==
    WithLeft =>
        /\ status # "uncaught" => ("commit2" \in CallOps /\ "rollback2" \notin CallOps)
        /\ (pc = 527 /\ status = "uncaught") =>
              ("rollback2" \in CallOps /\ "commit2" \notin CallOps)
        /\ conn2 = "closed"

(* the values the script inserts in section 3, in the order of the calls   *)
(* of lines 86, 100 and 107, and the one it inserts in section 6          *)
InsertedSection3 ==
    HelpsheetStmt(86).rows \o HelpsheetStmt(100).rows \o HelpsheetStmt(107).rows

InsertedSection6 == HelpsheetStmt(268).rows

(* the inserted attributes of a row that was read *)
InsertedPart(r) == [name |-> r.name, email |-> r.email, age |-> r.age,
                    gpa |-> r.gpa]

ReadByName(db, k) ==
    LET got == SelectAllStudents(db)
    IN {got[i] : i \in {j \in 1..Len(got) : got[j].name = k}}

(* the queries of section 4, and the UPDATE that follows them *)
Section4Lines == {131, 139, 147, 153, 160, 168, 176, 184, 192, 208, 230}

(* C13: once the inserts of section 3 are committed, the rows read back   *)
(* are the inserted ones: the i-th inserted record is read under key i    *)
(* with exactly the inserted name, email, age and gpa, each name reads    *)
(* back one row, and nothing else is read; the same for the record        *)
(* inserted and committed in section 6.                                   *)
C13_RoundTrip ==
    /\ (script = "helpsheet" /\ pc \in Section4Lines) =>
          LET got == SelectAllStudents(view)
          IN /\ view = disk
             /\ Len(got) = Len(InsertedSection3)
             /\ \A i \in 1..Len(InsertedSection3) :
                   /\ got[i].id = i
                   /\ InsertedPart(got[i]) = InsertedSection3[i]
                   /\ {InsertedPart(r) : r \in ReadByName(disk, InsertedSection3[i].name)}
                         = {InsertedSection3[i]}
    /\ (script = "helpsheet" /\ pc = 276) =>
          /\ view = disk
          /\ {InsertedPart(r) : r \in ReadByName(disk, "Test Student")}
                = {InsertedSection6[1]}
          /\ Cardinality(ReadByName(disk, "Test Student")) = 1

(* the first query of section 4 has run and returned the six records *)
C13_Witness ==
    /\ script = "helpsheet"
    /\ pc = 139
    /\ status = "running"
    /\ Len(SelectAllStudents(view)) = 6
    /\ InsertedPart(SelectAllStudents(view)[6]) =
          Student("Frank Miller", "frank@email.com", 22, 36)

(* db differs from the table of before the block in nothing but the gpa   *)
(* of rows named by one of the two keys                                   *)
OnlyKeyedGpaDiffers(db) ==
    /\ {r.id : r \in db.students} = {r.id : r \in pre.students}
    /\ Cardinality(db.students) = Cardinality(pre.students)
    /\ \A r \in pre.students :
          \E q \in db.students :
             /\ q.id = r.id
             /\ q.name = r.name
             /\ q.email = r.email
             /\ q.age = r.age
             /\ q.enrolled = r.enrolled
             /\ r.name \notin {SourceKey, DestKey} => q.gpa = r.gpa
    /\ db.tables = pre.tables
    /\ db.seq = pre.seq
    /\ db.courses = pre.courses

(* C14: whatever the students table held, rows sharing a name included,   *)
(* the transfer section changes nothing but the gpa of the rows named by  *)
(* the source key or the destination key, in the committed table and in   *)
(* the table the connection sees: no other row, no other attribute, no    *)
(* row created or deleted.                                                *)
C14_Frame ==
    OnlyKeyedGpaDiffers(view) /\ OnlyKeyedGpaDiffers(disk)

(* a committed transfer on a table with two rows named by the source key  *)
(* and a row named by neither key                                         *)
C14_Witness ==
    /\ BlockEnded
    /\ Committed
    /\ Cardinality(RowsNamed(pre, SourceKey)) = 2
    /\ \E r \in pre.students : r.name \notin {SourceKey, DestKey}
    /\ \A r \in RowsNamed(pre, SourceKey) : r \notin disk.students
    /\ C14_Frame

====
